---- MODULE Spec2Model ----
(***************************************************************************)
(* Model of src/backend1.js: the primary node (lines 1-284: login gate,    *)
(* lockout, session ledger, block list, health probe of the backup) and    *)
(* the secondary node (lines 285-532: ingest routes, health probe of the   *)
(* primary, periodic sync towards the primary).                            *)
(*                                                                         *)
(* Documents are functions from field names to values; a field the         *)
(* document does not carry is absent from the function's domain.           *)
(* Collections are sequences in natural (insertion) order.  Every await    *)
(* of a handler is a step boundary: the code between two awaits is one     *)
(* step.  Dates are integers (milliseconds).  Each node has the            *)
(* collections of its own MONGO_URI (lines 12 and 295); the _id a store    *)
(* assigns to a created session record is its place in the collection.     *)
(***************************************************************************)
EXTENDS Integers, Sequences, FiniteSets, TLC

\* ------------------------------------------------------------------ bounds
MaxTicks == 1       \* clock advances explored
MaxLedger == 2      \* session records the primary's ledger may hold
MaxBatch == 2       \* records in one ingest request
MaxStore == 52      \* records a secondary collection may hold when a cycle reads it
MaxDiary == 1       \* diary entries written on the primary

\* --------------------------------------------------------- program constants
LockDuration == 15 * 60 * 1000              \* backend1.js:107
SyncLimit == 50                             \* backend1.js:418, 419

NoDate == 0                                  \* a Date field that is not set
Times == {1, LockDuration}                   \* amounts by which the clock advances

\* ------------------------------------------------------------ stored users
\* The repository has no route that creates users: the users collection is
\* what the deployment holds.
Usernames == {"alice"}
Hash(s) == <<"bcrypt", s>>
NoHash == <<>>
ObjectIdOf == [alice |-> "oid_alice"]
passwordHash == [alice |-> Hash("pa")]
backupPasswordHash == [alice |-> Hash("ba")]

\* bcrypt.compare(s, hash): rejects when hash is not a string.
bcryptCompare(s, hash) ==
  IF hash = NoHash THEN "throw" ELSE IF Hash(s) = hash THEN "true" ELSE "false"

\* ------------------------------------------------------------ request inputs
AskedNames == Usernames \cup {"ghost"}
Passwords == {"pa", "ba"}
DeviceIds == {"d1"}
NoDeviceInfo == "undefined"
NoLocation == "undefined"
Locations == {"loc"}
IPs == {"ip1"}

LoginBodies ==
  [username : AskedNames, password : Passwords, isBackup : BOOLEAN,
   deviceInfo : DeviceIds \cup {NoDeviceInfo}, location : Locations \cup {NoLocation}]

\* ------------------------------------------------------------------- state
VARIABLES
  now,                 \* the clock read by new Date() / Date.now()
  emergencyLockUntil,  \* primary users collection: username -> Date or NoDate
  lastLogin,           \* primary users collection: username -> Date or NoDate
  blockedIPs,          \* primary users collection: username -> sequence of ip
  loginActivity,       \* primary LoginActivity collection
  diaryEntry,          \* primary DiaryEntry collection
  login,               \* the in-flight POST /api/login requests, by slot
  last,                \* the last completed step: operation, argument, reply
  ticks,               \* clock advances taken
  secDiaryEntry,       \* secondary DiaryEntry collection
  secLoginActivity,    \* secondary LoginActivity collection
  sync,                \* the running syncWithPrimary calls, by slot
  lastProbe,           \* outcome of the secondary's latest probe of the primary
  role,                \* node -> the service it runs as
  alive,               \* node -> its process is running
  listing,             \* the in-flight GET /api/activity request of the primary
  logout,              \* the in-flight POST /api/logout-device request of the primary
  posting,             \* the in-flight POST /api/diary request of the primary
  ingest               \* the in-flight ingest requests of the secondary, by slot

reqState == <<listing, logout, posting>>
gateState == <<now, ticks, emergencyLockUntil, lastLogin, blockedIPs, loginActivity,
               diaryEntry, login, reqState>>
secState == <<secDiaryEntry, secLoginActivity, sync, lastProbe, ingest>>
nodeState == <<role, alive>>

vars == <<gateState, secState, nodeState, last>>

Nodes == {"primary", "secondary"}

Slots == {1, 2}
NoBody == [username |-> "ghost", password |-> "bad", isBackup |-> FALSE,
           deviceInfo |-> NoDeviceInfo, location |-> NoLocation]
NoDoc == [deviceId |-> NoDeviceInfo]
Idle ==
  [pc |-> "idle", body |-> NoBody, status |-> 0, error |-> "",
   pending |-> NoDate, doc |-> NoDoc,
   checkedAt |-> NoDate, lockSeen |-> NoDate, triggeredAt |-> NoDate, base |-> 0,
   fault |-> FALSE, lockAtSave |-> NoDate]

\* ------------------------------------------------------- document helpers
Has(doc, f) == f \in DOMAIN doc

\* An update document applied to a stored document: mongoose wraps a plain
\* update object in $set, so only the paths of the update are written.
SetFields(doc, upd) ==
  [f \in (DOMAIN doc) \cup (DOMAIN upd) |-> IF f \in DOMAIN upd THEN upd[f] ELSE doc[f]]

\* loginActivitySchema defaults applied when a document is created.
LoginActivityDefaults(doc, t) ==
  SetFields([loginTime |-> t, isActive |-> TRUE, isSuspicious |-> FALSE], doc)

\* .limit(n) of a query: the first n documents of its result.
Limit(coll, n) == SubSeq(coll, 1, IF Len(coll) < n THEN Len(coll) ELSE n)

\* The filter {deviceId, isActive: true} of POST /api/logout-device.
MatchesActiveDevice(doc, deviceId) ==
  /\ Has(doc, "deviceId") /\ doc.deviceId = deviceId
  /\ Has(doc, "isActive") /\ doc.isActive = TRUE

\* Model.updateOne: the first document, in natural order, that matches.
FirstActiveOfDevice(coll, deviceId) ==
  IF \E i \in 1..Len(coll) : MatchesActiveDevice(coll[i], deviceId)
  THEN CHOOSE i \in 1..Len(coll) :
         /\ MatchesActiveDevice(coll[i], deviceId)
         /\ \A j \in 1..(i - 1) : ~MatchesActiveDevice(coll[j], deviceId)
  ELSE 0

\* LoginActivity.updateOne({deviceId, isActive: true}, {isActive: false, logoutTime})
closeDevice(coll, deviceId, t) ==
  LET i == FirstActiveOfDevice(coll, deviceId) IN
  IF i = 0 THEN coll
  ELSE [coll EXCEPT ![i] = SetFields(@, [isActive |-> FALSE, logoutTime |-> t])]

\* No lock check at all.
IsLockedIgnored(lockUntil, t) == FALSE

\* The lock check with its comparison reversed.
IsLockedReversed(lockUntil, t) == lockUntil # NoDate /\ t > lockUntil

\* The lock check of POST /api/login.
IsLocked(lockUntil, t) == lockUntil # NoDate /\ t < lockUntil

\* The lock window taken in seconds instead of milliseconds.
triggerLockoutSeconds(t) == t + 15 * 60

\* Lockout Policy: the value written to emergencyLockUntil.
triggerLockout(t) == t + LockDuration

Reply(op, arg, status, error, fault) ==
  [op |-> op, arg |-> arg, status |-> status, error |-> error, fault |-> fault,
   again |-> FALSE]

Cycles == {1, 2}
NoCycle == [pc |-> "idle", probe |-> "none", entries |-> <<>>, activities |-> <<>>,
            sent |-> 0, seenDiary |-> 0, seenActivity |-> 0]

\* Requests between their awaits: GET /api/activity, POST /api/logout-device,
\* POST /api/diary and the two ingest routes of the secondary.
NoListing == [pc |-> "idle", activities |-> <<>>]
NoLogout == [pc |-> "idle", deviceId |-> NoDeviceInfo, logoutTime |-> NoDate]
NoPosting == [pc |-> "idle", doc |-> NoDoc]
Requests == {1, 2}
SeqRequests == {1}
NoIngest == [pc |-> "idle", kind |-> "none", records |-> <<>>, at |-> 0,
             issuedAt |-> NoDate, again |-> FALSE]

\* --------------------------------------------------------------------- Init
Init ==
  /\ now = 1
  /\ emergencyLockUntil = [u \in Usernames |-> NoDate]
  /\ lastLogin = [u \in Usernames |-> NoDate]
  /\ blockedIPs = [u \in Usernames |-> <<>>]
  /\ loginActivity = <<>>
  /\ diaryEntry = <<>>
  /\ login = [r \in Slots |-> Idle]
  /\ last = Reply("start", "", 0, "", FALSE)
  /\ ticks = 0
  /\ secDiaryEntry = <<>>
  /\ secLoginActivity = <<>>
  /\ sync = [c \in Cycles |-> NoCycle]
  /\ lastProbe = "none"
  /\ role = [n \in Nodes |-> n]
  /\ alive = [n \in Nodes |-> TRUE]
  /\ listing = NoListing
  /\ logout = NoLogout
  /\ posting = NoPosting
  /\ ingest = [q \in Requests |-> NoIngest]

\* Time passes between any two steps.
Tick ==
  /\ ticks < MaxTicks
  /\ \E d \in Times : now' = now + d
  /\ ticks' = ticks + 1
  /\ last' = Reply("tick", "", 0, "", FALSE)
  /\ UNCHANGED <<emergencyLockUntil, lastLogin, blockedIPs, loginActivity, diaryEntry, login>>
  /\ UNCHANGED <<secState, nodeState, reqState>>

\* ------------------------------------------------------- POST /api/login
Respond(r, status, error) ==
  /\ login' = [login EXCEPT ![r].pc = "done", ![r].status = status, ![r].error = error,
                            ![r].pending = NoDate, ![r].doc = NoDoc]
  /\ last' = Reply("login", r, 0, "", FALSE)

\* An awaited store call rejecting: the catch block (lines 144-147) answers 500.
StoreFails(r) ==
  /\ login' = [login EXCEPT ![r].pc = "done", ![r].status = 500,
                            ![r].error = "Internal server error", ![r].fault = TRUE,
                            ![r].pending = NoDate, ![r].doc = NoDoc]
  /\ last' = Reply("login", r, 0, "", FALSE)

\* An unknown username answered with a reply of its own.
NotFoundReplyReveals == [status |-> 404, error |-> "User not found"]

\* Line 90: the reply to an unknown username.
NotFoundReply == [status |-> 401, error |-> "Invalid credentials"]

\* Lines 86-100: read the user, not found -> 401, lock check -> 403, then
\* bcrypt.compare is started on the selected hash.
LoginFind(r, bodies) ==
  /\ alive["primary"]
  /\ login[r].pc \in {"idle", "done"}
  /\ Len(loginActivity) < MaxLedger
  /\ \E body \in bodies :
       LET u == body.username
           fresh == [Idle EXCEPT !.body = body, !.base = Len(loginActivity)] IN
       IF u \notin Usernames
       THEN login' = [login EXCEPT ![r] = [fresh EXCEPT !.pc = "done", !.status = NotFoundReply.status,
                                                        !.error = NotFoundReply.error]]
       ELSE LET seen == [fresh EXCEPT !.checkedAt = now, !.lockSeen = emergencyLockUntil[u]] IN
            IF IsLocked(emergencyLockUntil[u], now)
            THEN login' = [login EXCEPT ![r] = [seen EXCEPT !.pc = "done", !.status = 403,
                                                           !.error = "Account locked"]]
            ELSE login' = [login EXCEPT ![r] = [seen EXCEPT !.pc = "compare"]]
  /\ last' = Reply("login", r, 0, "", FALSE)
  /\ UNCHANGED <<now, ticks, emergencyLockUntil, lastLogin, blockedIPs, loginActivity, diaryEntry>>
  /\ UNCHANGED <<secState, nodeState, reqState>>

\* Line 88 rejecting (the store cannot be reached): the catch block answers 500
\* whatever the request holds.
LoginFindFails(r) ==
  /\ alive["primary"]
  /\ login[r].pc \in {"idle", "done"}
  /\ login' = [login EXCEPT ![r] = [Idle EXCEPT !.pc = "done", !.status = 500,
                                                !.error = "Internal server error",
                                                !.base = Len(loginActivity), !.fault = TRUE]]
  /\ last' = Reply("login", r, 0, "", FALSE)
  /\ UNCHANGED <<now, ticks, emergencyLockUntil, lastLogin, blockedIPs, loginActivity, diaryEntry>>
  /\ UNCHANGED <<secState, nodeState, reqState>>

\* The hash selected without looking at isBackup.
passwordToCheckIgnoresBackup(body) == passwordHash[body.username]

\* Line 99: the hash the secret is compared with.
passwordToCheck(body) ==
  IF body.isBackup THEN backupPasswordHash[body.username] ELSE passwordHash[body.username]

\* Lines 100-108 and 124-125: bcrypt.compare settles; invalid -> 401; then the
\* in-memory user gets emergencyLockUntil (no location) or lastLogin (location)
\* and user.save() is started.
LoginCompare(r) ==
  /\ alive["primary"]
  /\ login[r].pc = "compare"
  /\ LET body == login[r].body
         isValid == bcryptCompare(body.password, passwordToCheck(body)) IN
     IF isValid = "throw" THEN Respond(r, 500, "Internal server error")
     ELSE IF isValid = "false" THEN Respond(r, 401, "Invalid credentials")
     ELSE IF body.location = NoLocation
     THEN /\ login' = [login EXCEPT ![r].pc = "saveLock", ![r].pending = triggerLockout(now),
                                    ![r].triggeredAt = now]
          /\ last' = Reply("login", r, 0, "", FALSE)
     ELSE /\ login' = [login EXCEPT ![r].pc = "saveLogin", ![r].pending = now]
          /\ last' = Reply("login", r, 0, "", FALSE)
  /\ UNCHANGED <<now, ticks, emergencyLockUntil, lastLogin, blockedIPs, loginActivity, diaryEntry>>
  /\ UNCHANGED <<secState, nodeState, reqState>>

\* Lines 110-117: the document of a location-denied attempt.
SuspiciousActivity(body, t) ==
  [userId |-> ObjectIdOf[body.username], deviceId |-> body.deviceInfo,
   isSuspicious |-> TRUE, loginTime |-> t]

\* Lines 127-135: the document of a successful attempt.
ActiveActivity(body, t) ==
  [userId |-> ObjectIdOf[body.username], deviceId |-> body.deviceInfo,
   location |-> body.location, loginTime |-> t, isActive |-> TRUE]

\* Lines 108-117: user.save() settles (only the modified path is written), then
\* the arguments of LoginActivity.create are evaluated: deviceInfo.deviceId
\* throws when the request carries no deviceInfo.
LoginSaveLock(r) ==
  /\ alive["primary"]
  /\ login[r].pc = "saveLock"
  /\ \E fault \in BOOLEAN :
       IF fault
       THEN /\ StoreFails(r)
            /\ UNCHANGED emergencyLockUntil
       ELSE /\ emergencyLockUntil' =
                 [emergencyLockUntil EXCEPT ![login[r].body.username] = login[r].pending]
            /\ IF login[r].body.deviceInfo = NoDeviceInfo
               THEN Respond(r, 500, "Internal server error")
               ELSE /\ login' = [login EXCEPT ![r].pc = "createSuspicious",
                                              ![r].doc = SuspiciousActivity(login[r].body, now)]
                    /\ last' = Reply("login", r, 0, "", FALSE)
  /\ UNCHANGED <<now, ticks, lastLogin, blockedIPs, loginActivity, diaryEntry>>
  /\ UNCHANGED <<secState, nodeState, reqState>>

\* A successful login that clears the lock.
LockClearedOnLogin(stored, inMemory) == NoDate

\* A save that writes the whole in-memory user back.
LockAfterSavingWholeUser(stored, inMemory) == inMemory

\* Line 125: user.save() sends only the modified path, lastLogin; the stored
\* emergencyLockUntil stays whatever the in-memory user holds.
LockAfterSavingLastLogin(stored, inMemory) == stored

\* Lines 125-135: the same for a successful attempt.
LoginSaveLogin(r) ==
  /\ alive["primary"]
  /\ login[r].pc = "saveLogin"
  /\ \E fault \in BOOLEAN :
       IF fault
       THEN /\ StoreFails(r)
            /\ UNCHANGED <<lastLogin, emergencyLockUntil>>
       ELSE /\ lastLogin' = [lastLogin EXCEPT ![login[r].body.username] = login[r].pending]
            /\ emergencyLockUntil' =
                 [emergencyLockUntil EXCEPT ![login[r].body.username] =
                    LockAfterSavingLastLogin(@, login[r].lockSeen)]
            /\ IF login[r].body.deviceInfo = NoDeviceInfo
               THEN /\ login' = [login EXCEPT ![r].pc = "done", ![r].status = 500,
                                              ![r].error = "Internal server error",
                                              ![r].pending = NoDate, ![r].doc = NoDoc,
                                              ![r].lockAtSave = emergencyLockUntil[login[r].body.username]]
                    /\ last' = Reply("login", r, 0, "", FALSE)
               ELSE /\ login' = [login EXCEPT ![r].pc = "createActive",
                                              ![r].doc = ActiveActivity(login[r].body, now),
                                              ![r].lockAtSave = emergencyLockUntil[login[r].body.username]]
                    /\ last' = Reply("login", r, 0, "", FALSE)
  /\ UNCHANGED <<now, ticks, blockedIPs, loginActivity, diaryEntry>>
  /\ UNCHANGED <<secState, nodeState, reqState>>

\* A catch block that puts the lock back to what the request had read.
LockRolledBack(stored, inMemory) == inMemory

\* Lines 144-147: the catch block logs and answers 500; the lock saved at line
\* 108 stays as stored.
LockAfterCreateFails(stored, inMemory) == stored

\* Lines 110-121: LoginActivity.create settles, then 403.
LoginCreateSuspicious(r) ==
  /\ alive["primary"]
  /\ login[r].pc = "createSuspicious"
  /\ \E fault \in BOOLEAN :
       IF fault
       THEN /\ StoreFails(r)
            /\ emergencyLockUntil' =
                 [emergencyLockUntil EXCEPT ![login[r].body.username] =
                    LockAfterCreateFails(@, login[r].lockSeen)]
            /\ UNCHANGED loginActivity
       ELSE /\ loginActivity' = Append(loginActivity, LoginActivityDefaults(login[r].doc, now))
            /\ Respond(r, 403, "Location permission required")
            /\ UNCHANGED emergencyLockUntil
  /\ UNCHANGED <<now, ticks, lastLogin, blockedIPs, diaryEntry>>
  /\ UNCHANGED <<secState, nodeState, reqState>>

\* Lines 127-143: LoginActivity.create settles, then the token is returned.
LoginCreateActive(r) ==
  /\ alive["primary"]
  /\ login[r].pc = "createActive"
  /\ \E fault \in BOOLEAN :
       IF fault
       THEN /\ StoreFails(r)
            /\ UNCHANGED loginActivity
       ELSE /\ loginActivity' = Append(loginActivity, LoginActivityDefaults(login[r].doc, now))
            /\ Respond(r, 200, "")
  /\ UNCHANGED <<now, ticks, emergencyLockUntil, lastLogin, blockedIPs, diaryEntry>>
  /\ UNCHANGED <<secState, nodeState, reqState>>

\* The acting user of every route that takes a token (lines 155, 178, 193,
\* 198, 230).
TokenUser == "user_from_token"

\* ------------------------------------------------ POST /api/logout-device
\* Lines 209-216: the request is handled: the update document, with
\* logoutTime: new Date(), is built and updateOne is started.
LogoutDevice ==
  /\ alive["primary"]
  /\ logout.pc = "idle"
  /\ \E deviceId \in DeviceIds :
       logout' = [pc |-> "update", deviceId |-> deviceId, logoutTime |-> now]
  /\ last' = Reply("logoutDevice", "", 0, "", FALSE)
  /\ UNCHANGED <<now, ticks, emergencyLockUntil, lastLogin, blockedIPs, loginActivity,
                 diaryEntry, login, listing, posting>>
  /\ UNCHANGED <<secState, nodeState>>

\* Lines 213-222: updateOne settles: the store has applied the update as it
\* was built, or rejected it, and the reply is sent.
LogoutDeviceSettles ==
  /\ alive["primary"]
  /\ logout.pc = "update"
  /\ \E fault \in BOOLEAN :
       IF fault
       THEN /\ last' = Reply("logoutDevice", logout.deviceId, 500, "Failed to logout device", TRUE)
            /\ UNCHANGED loginActivity
       ELSE /\ loginActivity' = closeDevice(loginActivity, logout.deviceId, logout.logoutTime)
            /\ last' = Reply("logoutDevice", logout.deviceId, 200, "", FALSE)
  /\ logout' = NoLogout
  /\ UNCHANGED <<now, ticks, emergencyLockUntil, lastLogin, blockedIPs, diaryEntry, login,
                 listing, posting>>
  /\ UNCHANGED <<secState, nodeState>>

\* -------------------------------------------------------- POST /api/diary
\* The entry of a request; a request may come without one.
Entries == {[title |-> "t", content |-> "c"]}

\* The _id a new document gets when it is constructed.
NewObjectId(coll) == 100 + Len(coll)

\* Lines 154-161: the document DiaryEntry.create constructs, with the schema
\* defaults of the moment it is constructed, for a request that carries an
\* entry without tags and neither location nor deviceInfo.
NewDiaryEntry(entry, id, t) ==
  [_id |-> id, userId |-> TokenUser, title |-> entry.title, content |-> entry.content,
   tags |-> <<>>, date |-> t]

\* Lines 150-161: the request is handled: entry.title throws when the request
\* has no entry (500); else the document is constructed and its insert started.
PostDiary ==
  /\ alive["primary"]
  /\ posting.pc = "idle"
  /\ Len(diaryEntry) < MaxDiary
  /\ \E hasEntry \in BOOLEAN, entry \in Entries :
       IF ~hasEntry
       THEN /\ posting' = NoPosting
            /\ last' = Reply("postDiary", "", 500, "Failed to save diary entry", FALSE)
       ELSE /\ posting' = [pc |-> "create",
                            doc |-> NewDiaryEntry(entry, NewObjectId(diaryEntry), now)]
            /\ last' = Reply("postDiary", "", 0, "", FALSE)
  /\ UNCHANGED <<now, ticks, emergencyLockUntil, lastLogin, blockedIPs, loginActivity,
                 diaryEntry, login, listing, logout>>
  /\ UNCHANGED <<secState, nodeState>>

\* Lines 154-171: the insert settles and the reply is sent.
PostDiarySettles ==
  /\ alive["primary"]
  /\ posting.pc = "create"
  /\ \E fault \in BOOLEAN :
       IF fault
       THEN /\ last' = Reply("postDiary", "", 500, "Failed to save diary entry", TRUE)
            /\ UNCHANGED diaryEntry
       ELSE /\ diaryEntry' = Append(diaryEntry, posting.doc)
            /\ last' = Reply("postDiary", posting.doc._id, 200, "", FALSE)
  /\ posting' = NoPosting
  /\ UNCHANGED <<now, ticks, emergencyLockUntil, lastLogin, blockedIPs, loginActivity, login,
                 listing, logout>>
  /\ UNCHANGED <<secState, nodeState>>

\* ------------------------------------------------------ POST /api/block-ip
\* The filter is {_id: 'user_from_token'}.  _id is an ObjectId path; the
\* filter value is cast when the query runs.
CastsToObjectId(v) == v \in {ObjectIdOf[u] : u \in Usernames}

\* $addToSet on an array path.
AddToSet(arr, v) == IF \E i \in 1..Len(arr) : arr[i] = v THEN arr ELSE Append(arr, v)

\* User.updateOne({_id}, {$addToSet: {blockedIPs: ip}}): the users the filter matches.
UsersWithId(id) == {u \in Usernames : ObjectIdOf[u] = id}

BlockIP ==
  /\ alive["primary"]
  /\ \E ip \in IPs, fault \in BOOLEAN :
       IF fault \/ ~CastsToObjectId(TokenUser)
       THEN /\ last' = Reply("blockIP", ip, 500, "Failed to block IP", fault)
            /\ UNCHANGED blockedIPs
       ELSE /\ blockedIPs' = [u \in Usernames |->
                 IF u \in UsersWithId(TokenUser) THEN AddToSet(blockedIPs[u], ip)
                 ELSE blockedIPs[u]]
            /\ last' = Reply("blockIP", ip, 200, "", FALSE)
  /\ UNCHANGED <<now, ticks, emergencyLockUntil, lastLogin, loginActivity, diaryEntry, login>>
  /\ UNCHANGED <<secState, nodeState, reqState>>

\* ------------------------------------------------------- GET /api/activity
ActivityLimit == 20                          \* backend1.js:195

\* The filter {userId: 'user_from_token'}: userId is a String path, so the
\* filter value is compared as it is.
OwnedBy(coll, userId) == SelectSeq(coll, LAMBDA d : Has(d, "userId") /\ d.userId = userId)

\* The filter {userId: 'user_from_token', isActive: true}.
ActiveOwnedBy(coll, userId) ==
  SelectSeq(coll, LAMBDA d : Has(d, "userId") /\ d.userId = userId
                             /\ Has(d, "isActive") /\ d.isActive = TRUE)

\* The place of the first document with the greatest loginTime.
FirstLatest(coll) ==
  CHOOSE i \in 1..Len(coll) :
    /\ \A j \in 1..Len(coll) : coll[j].loginTime <= coll[i].loginTime
    /\ \A j \in 1..(i - 1) : coll[j].loginTime < coll[i].loginTime

Without(coll, i) == SubSeq(coll, 1, i - 1) \o SubSeq(coll, i + 1, Len(coll))

\* .sort({loginTime: -1})
RECURSIVE SortLoginTimeDesc(_)
SortLoginTimeDesc(coll) ==
  IF coll = <<>> THEN <<>>
  ELSE LET i == FirstLatest(coll) IN <<coll[i]>> \o SortLoginTimeDesc(Without(coll, i))

\* Lines 193-195: the first find settles.
ListRecent ==
  /\ alive["primary"]
  /\ listing.pc = "idle"
  /\ \E fault \in BOOLEAN :
       IF fault
       THEN /\ listing' = NoListing
            /\ last' = Reply("listActivity", "", 500, "Failed to fetch activity", TRUE)
       ELSE /\ listing' = [pc |-> "active",
                            activities |-> Limit(SortLoginTimeDesc(OwnedBy(loginActivity, TokenUser)),
                                                 ActivityLimit)]
            /\ last' = Reply("listActivity", "", 0, "", FALSE)
  /\ UNCHANGED <<now, ticks, emergencyLockUntil, lastLogin, blockedIPs, loginActivity, diaryEntry, login>>
  /\ UNCHANGED <<secState, nodeState, logout, posting>>

\* Lines 197-202: the second find settles and the two lists are sent.
ListActive ==
  /\ alive["primary"]
  /\ listing.pc = "active"
  /\ \E fault \in BOOLEAN :
       /\ last' = IF fault
                  THEN Reply("listActivity", "", 500, "Failed to fetch activity", TRUE)
                  ELSE Reply("listActivity",
                             [activities |-> listing.activities,
                              activeDevices |-> ActiveOwnedBy(loginActivity, TokenUser)],
                             200, "", FALSE)
  /\ listing' = NoListing
  /\ UNCHANGED <<now, ticks, emergencyLockUntil, lastLogin, blockedIPs, loginActivity, diaryEntry, login>>
  /\ UNCHANGED <<secState, nodeState, logout, posting>>

SeqSlots == {1}

GateNext ==
  \/ Tick
  \/ \E r \in SeqSlots : LoginFind(r, LoginBodies)
  \/ \E r \in SeqSlots : LoginFindFails(r)
  \/ \E r \in SeqSlots : LoginCompare(r)
  \/ \E r \in SeqSlots : LoginSaveLock(r)
  \/ \E r \in SeqSlots : LoginSaveLogin(r)
  \/ \E r \in SeqSlots : LoginCreateSuspicious(r)
  \/ \E r \in SeqSlots : LoginCreateActive(r)
  \/ LogoutDevice
  \/ LogoutDeviceSettles
  \/ BlockIP
  \/ PostDiary
  \/ PostDiarySettles

Spec == Init /\ [][GateNext]_vars

\* ====================================================== secondary node
\* Request payloads of the ingest routes.
DiaryPayloads ==
  {[_id |-> 1, title |-> "a"], [_id |-> 1, title |-> "b", content |-> "c"],
   [_id |-> 2, title |-> "a"]}
SessionPayloads ==
  {[deviceId |-> "d1", loginTime |-> 1, isActive |-> FALSE, logoutTime |-> 2],
   [deviceId |-> "d1", loginTime |-> 1, isActive |-> TRUE],
   [deviceId |-> "d1", loginTime |-> 2, isActive |-> TRUE]}

RECURSIVE SeqsUpTo(_, _)
SeqsUpTo(S, n) ==
  IF n = 0 THEN {<<>>}
  ELSE SeqsUpTo(S, n - 1) \cup {Append(q, x) : q \in {t \in SeqsUpTo(S, n - 1) : Len(t) = n - 1}, x \in S}

DiaryBatches == SeqsUpTo(DiaryPayloads, MaxBatch)
SessionBatches == SeqsUpTo(SessionPayloads, MaxBatch)

\* diaryEntrySchema defaults applied when an upsert inserts.
DiaryEntryDefaults(doc, t) == SetFields([date |-> t, tags |-> <<>>], doc)

\* The filter {_id: entry._id}.
MatchesId(doc, entry) == Has(doc, "_id") /\ Has(entry, "_id") /\ doc._id = entry._id

FirstWithId(coll, entry) ==
  IF \E i \in 1..Len(coll) : MatchesId(coll[i], entry)
  THEN CHOOSE i \in 1..Len(coll) :
         MatchesId(coll[i], entry) /\ \A j \in 1..(i - 1) : ~MatchesId(coll[j], entry)
  ELSE 0

\* An upsert that never finds the stored document.
upsertDiaryInsertOnly(coll, entry, t) == Append(coll, DiaryEntryDefaults(entry, t))

\* DiaryEntry.findOneAndUpdate({_id: entry._id}, entry, {upsert: true, new: true}):
\* the entry's paths are set on the first match; with no match a document made
\* of the filter, the entry and the schema defaults is inserted.
upsertDiary(coll, entry, t) ==
  LET i == FirstWithId(coll, entry) IN
  IF i # 0 THEN [coll EXCEPT ![i] = SetFields(@, entry)]
  ELSE Append(coll, DiaryEntryDefaults(SetFields([_id |-> entry._id], entry), t))

\* Lines 357-363: the loop over the request's entries.
RECURSIVE upsertDiaryBatch(_, _, _)
upsertDiaryBatch(coll, entries, t) ==
  IF entries = <<>> THEN coll
  ELSE upsertDiaryBatch(upsertDiary(coll, Head(entries), t), Tail(entries), t)

\* The filter {deviceId: activity.deviceId, loginTime: activity.loginTime}.
MatchesSessionKey(doc, activity) ==
  /\ Has(doc, "deviceId") /\ doc.deviceId = activity.deviceId
  /\ Has(doc, "loginTime") /\ doc.loginTime = activity.loginTime

FirstWithSessionKey(coll, activity) ==
  IF \E i \in 1..Len(coll) : MatchesSessionKey(coll[i], activity)
  THEN CHOOSE i \in 1..Len(coll) :
         /\ MatchesSessionKey(coll[i], activity)
         /\ \A j \in 1..(i - 1) : ~MatchesSessionKey(coll[j], activity)
  ELSE 0

\* An upsert that never finds the stored document.
upsertSessionInsertOnly(coll, activity, t) == Append(coll, LoginActivityDefaults(activity, t))

\* LoginActivity.findOneAndUpdate({deviceId, loginTime}, activity, {upsert: true, new: true})
upsertSession(coll, activity, t) ==
  LET i == FirstWithSessionKey(coll, activity) IN
  IF i # 0 THEN [coll EXCEPT ![i] = SetFields(@, activity)]
  ELSE Append(coll, LoginActivityDefaults(
         SetFields([deviceId |-> activity.deviceId, loginTime |-> activity.loginTime], activity), t))

\* Lines 376-382: the loop over the request's activities.
RECURSIVE upsertSessionBatch(_, _, _)
upsertSessionBatch(coll, activities, t) ==
  IF activities = <<>> THEN coll
  ELSE upsertSessionBatch(upsertSession(coll, Head(activities), t), Tail(activities), t)

\* The collection an ingest route writes, its filter and its upsert.
FirstMatch(kind, coll, record) ==
  IF kind = "diary" THEN FirstWithId(coll, record) ELSE FirstWithSessionKey(coll, record)
Upsert(kind, coll, record, t) ==
  IF kind = "diary" THEN upsertDiary(coll, record, t) ELSE upsertSession(coll, record, t)

\* Lines 353-358 and 372-377: the request is handled and the command of its
\* first record is issued; a request with no records is answered at once.  A
\* command carries the schema defaults of the moment it is issued.
IngestStart(q, kind, batch) ==
  /\ alive["secondary"]
  /\ ingest[q].pc \in {"idle", "done", "failed"}
  /\ LET again == ingest[q].pc = "done" /\ ingest[q].kind = kind /\ ingest[q].records = batch
         op == IF kind = "diary" THEN "syncDiary" ELSE "syncActivity" IN
     IF batch = <<>>
     THEN /\ ingest' = [ingest EXCEPT ![q] =
                          [pc |-> "done", kind |-> kind, records |-> batch, at |-> 0,
                           issuedAt |-> now, again |-> again]]
          /\ last' = [Reply(op, batch, 200, "", FALSE) EXCEPT !.again = again]
     ELSE /\ ingest' = [ingest EXCEPT ![q] =
                          [pc |-> "find", kind |-> kind, records |-> batch, at |-> 1,
                           issuedAt |-> now, again |-> again]]
          /\ last' = Reply("ingest", q, 0, "", FALSE)
  /\ UNCHANGED <<secDiaryEntry, secLoginActivity, sync, lastProbe, gateState, nodeState>>

\* POST /api/sync-diary.
SyncDiary(q, batches) == \E entries \in batches : IngestStart(q, "diary", entries)

\* POST /api/sync-activity.
SyncActivity(q, batches) == \E activities \in batches : IngestStart(q, "activity", activities)

\* Lines 357-365 and 376-384: the command of the record at place at has
\* settled: the next record's command is issued, or the reply is sent.
AfterRecord(req, t) ==
  IF req.at = Len(req.records) THEN [req EXCEPT !.pc = "done"]
  ELSE [req EXCEPT !.pc = "find", !.at = @ + 1, !.issuedAt = t]

ReplyAfterRecord(req, q) ==
  IF req.at = Len(req.records)
  THEN [Reply(IF req.kind = "diary" THEN "syncDiary" ELSE "syncActivity", req.records,
              200, "", FALSE) EXCEPT !.again = req.again]
  ELSE Reply("ingest", q, 0, "", FALSE)

ReplyFailed(req) ==
  IF req.kind = "diary" THEN Reply("syncDiary", req.records, 500, "Failed to sync diary", TRUE)
  ELSE Reply("syncActivity", req.records, 500, "Failed to sync activity", TRUE)

\* findOneAndUpdate with upsert is one store command that first looks the
\* filter up and, finding nothing, inserts: an update of a found document is
\* atomic, but with no unique index on the filter's paths two commands can both
\* find nothing before either inserts.  This is the lookup: a found document
\* is updated in the same step; a rejected command ends the request with 500.
IngestFind(q) ==
  /\ alive["secondary"]
  /\ ingest[q].pc = "find"
  /\ LET req == ingest[q]
         record == req.records[req.at]
         coll == IF req.kind = "diary" THEN secDiaryEntry ELSE secLoginActivity
         written == IF FirstMatch(req.kind, coll, record) # 0
                    THEN Upsert(req.kind, coll, record, req.issuedAt) ELSE coll IN
     \E fault \in BOOLEAN :
       IF fault
       THEN /\ ingest' = [ingest EXCEPT ![q].pc = "failed"]
            /\ last' = ReplyFailed(req)
            /\ UNCHANGED <<secDiaryEntry, secLoginActivity>>
       ELSE /\ secDiaryEntry' = IF req.kind = "diary" THEN written ELSE secDiaryEntry
            /\ secLoginActivity' = IF req.kind = "diary" THEN secLoginActivity ELSE written
            /\ IF FirstMatch(req.kind, coll, record) # 0
               THEN /\ ingest' = [ingest EXCEPT ![q] = AfterRecord(@, now)]
                    /\ last' = ReplyAfterRecord(req, q)
               ELSE /\ ingest' = [ingest EXCEPT ![q].pc = "insert"]
                    /\ last' = Reply("ingest", q, 0, "", FALSE)
  /\ UNCHANGED <<sync, lastProbe, gateState, nodeState>>

\* The insert of a command whose lookup found nothing.  The diary's _id has the
\* store's unique index: when another command has inserted the _id meanwhile
\* the insert is refused, and the store either retries the command as an update
\* or rejects it (500).  The sessions' filter paths have no index.
IngestInsert(q) ==
  /\ alive["secondary"]
  /\ ingest[q].pc = "insert"
  /\ LET req == ingest[q]
         record == req.records[req.at]
         inserted == Upsert(req.kind, <<>>, record, req.issuedAt) IN
     IF req.kind = "diary" /\ FirstWithId(secDiaryEntry, record) # 0
     THEN \E retried \in BOOLEAN :
            IF retried
            THEN /\ secDiaryEntry' = upsertDiary(secDiaryEntry, record, req.issuedAt)
                 /\ ingest' = [ingest EXCEPT ![q] = AfterRecord(@, now)]
                 /\ last' = ReplyAfterRecord(req, q)
                 /\ UNCHANGED secLoginActivity
            ELSE /\ ingest' = [ingest EXCEPT ![q].pc = "failed"]
                 /\ last' = ReplyFailed(req)
                 /\ UNCHANGED <<secDiaryEntry, secLoginActivity>>
     ELSE /\ secDiaryEntry' =
               IF req.kind = "diary" THEN secDiaryEntry \o inserted ELSE secDiaryEntry
          /\ secLoginActivity' =
               IF req.kind = "diary" THEN secLoginActivity ELSE secLoginActivity \o inserted
          /\ ingest' = [ingest EXCEPT ![q] = AfterRecord(@, now)]
          /\ last' = ReplyAfterRecord(req, q)
  /\ UNCHANGED <<sync, lastProbe, gateState, nodeState>>

\* ------------------------------------------------------- health probes
ProbeOutcomes == {"ok", "notOk", "throw"}

\* What a probe that found the peer down does to the node's role.
RoleAfterProbePromotes(r, outcome) == IF outcome = "ok" THEN r ELSE "primary"

\* Lines 244-249 and 406-411: every branch of a probe only logs.
RoleAfterProbe(r, outcome) == r

\* Lines 242-249 and 404-411: the fetch is inside try/catch, so a rejected
\* fetch never leaves the callback.
AliveAfterProbe(outcome) == TRUE

BackupProbeLog(outcome) ==
  IF outcome = "notOk" THEN "Backup service is down, sending notification"
  ELSE IF outcome = "throw" THEN "Cannot reach backup service" ELSE ""

PrimaryProbeLog(outcome) ==
  IF outcome = "notOk" THEN "Primary service is down, activating backup mode"
  ELSE IF outcome = "throw" THEN "Cannot reach primary service, backup is active" ELSE ""

\* checkBackupService, on the primary's 60 s timer.
CheckBackupService ==
  /\ alive["primary"]
  /\ \E outcome \in ProbeOutcomes :
       /\ role' = [role EXCEPT !["primary"] = RoleAfterProbe(@, outcome)]
       /\ alive' = [alive EXCEPT !["primary"] = AliveAfterProbe(outcome)]
       /\ last' = Reply("checkBackupService", outcome, 0, BackupProbeLog(outcome), FALSE)
  /\ UNCHANGED <<gateState, secState>>

\* checkPrimaryService, on the secondary's 30 s timer.
CheckPrimaryService ==
  /\ alive["secondary"]
  /\ \E outcome \in ProbeOutcomes :
       /\ role' = [role EXCEPT !["secondary"] = RoleAfterProbe(@, outcome)]
       /\ alive' = [alive EXCEPT !["secondary"] = AliveAfterProbe(outcome)]
       /\ lastProbe' = outcome
       /\ last' = Reply("checkPrimaryService", outcome, 0, PrimaryProbeLog(outcome), FALSE)
  /\ UNCHANGED <<gateState, secDiaryEntry, secLoginActivity, sync, ingest>>

\* ----------------------------------------------------- syncWithPrimary
\* The routes the primary mounts (lines 75, 84, 150, 174, 189, 209, 225).
PrimaryRoutes ==
  {<<"GET", "/api/health">>, <<"POST", "/api/login">>, <<"POST", "/api/diary">>,
   <<"GET", "/api/diary">>, <<"GET", "/api/activity">>, <<"POST", "/api/logout-device">>,
   <<"POST", "/api/block-ip">>}

\* The status the primary answers a request with when only routing decides it.
PrimaryStatus(method, path) == IF <<method, path>> \in PrimaryRoutes THEN 200 ELSE 404

\* A cycle that goes on unless the fetch rejected, without looking at response.ok.
AfterProbeUngated(outcome) == IF outcome = "throw" THEN "done" ELSE "readDiary"

\* Line 417 and the catch block: the cycle goes on only when response.ok.
AfterProbe(outcome) == IF outcome = "ok" THEN "readDiary" ELSE "done"

\* Lines 416-417: the cycle's own probe of the primary.  A rejected fetch goes
\* to the catch block (line 436); a non-OK answer ends the cycle silently.
SyncProbe(c) ==
  /\ alive["secondary"]
  /\ sync[c].pc \in {"idle", "done"}
  /\ \E outcome \in ProbeOutcomes :
       /\ sync' = [sync EXCEPT ![c] = [NoCycle EXCEPT !.probe = outcome,
                      !.pc = AfterProbe(outcome)]]
       /\ lastProbe' = outcome
       /\ last' = Reply("syncWithPrimary", c, 0,
                        IF outcome = "throw" THEN "Sync with primary failed" ELSE "", FALSE)
  /\ UNCHANGED <<secDiaryEntry, secLoginActivity, gateState, nodeState, ingest>>

\* Line 418.
SyncReadDiary(c) ==
  /\ alive["secondary"]
  /\ sync[c].pc = "readDiary"
  /\ \E fault \in BOOLEAN :
       /\ sync' = IF fault THEN [sync EXCEPT ![c].pc = "done"]
                  ELSE [sync EXCEPT ![c].pc = "readActivity",
                                    ![c].entries = Limit(secDiaryEntry, SyncLimit),
                                    ![c].seenDiary = Len(secDiaryEntry)]
       /\ last' = Reply("syncWithPrimary", c, 0,
                        IF fault THEN "Sync with primary failed" ELSE "", fault)
  /\ UNCHANGED <<secDiaryEntry, secLoginActivity, lastProbe, gateState, nodeState, ingest>>

\* Line 419.
SyncReadActivity(c) ==
  /\ alive["secondary"]
  /\ sync[c].pc = "readActivity"
  /\ \E fault \in BOOLEAN :
       /\ sync' = IF fault THEN [sync EXCEPT ![c].pc = "done"]
                  ELSE [sync EXCEPT ![c].pc = "pushDiary",
                                    ![c].activities = Limit(secLoginActivity, SyncLimit),
                                    ![c].seenActivity = Len(secLoginActivity)]
       /\ last' = Reply("syncWithPrimary", c, 0,
                        IF fault THEN "Sync with primary failed" ELSE "", fault)
  /\ UNCHANGED <<secDiaryEntry, secLoginActivity, lastProbe, gateState, nodeState, ingest>>

\* Lines 421-425: POST PRIMARY_URL/api/sync-diary.  The primary mounts no such
\* route: it answers PrimaryStatus and none of its collections changes.  fetch
\* rejects only when the request cannot be delivered.
SyncPushDiary(c) ==
  /\ alive["secondary"]
  /\ sync[c].pc = "pushDiary"
  /\ \E delivered \in BOOLEAN :
       /\ sync' = IF delivered
                  THEN [sync EXCEPT ![c].pc = "pushActivity", ![c].sent = @ + 1]
                  ELSE [sync EXCEPT ![c].pc = "done"]
       /\ last' = IF delivered
                  THEN Reply("syncWithPrimary", c, PrimaryStatus("POST", "/api/sync-diary"), "", FALSE)
                  ELSE Reply("syncWithPrimary", c, 0, "Sync with primary failed", TRUE)
  /\ UNCHANGED <<secDiaryEntry, secLoginActivity, lastProbe, gateState, nodeState, ingest>>

\* Lines 427-433: POST PRIMARY_URL/api/sync-activity, then the success log.
SyncPushActivity(c) ==
  /\ alive["secondary"]
  /\ sync[c].pc = "pushActivity"
  /\ \E delivered \in BOOLEAN :
       /\ sync' = IF delivered
                  THEN [sync EXCEPT ![c].pc = "done", ![c].sent = @ + 1]
                  ELSE [sync EXCEPT ![c].pc = "done"]
       /\ last' = IF delivered
                  THEN Reply("syncWithPrimary", c, PrimaryStatus("POST", "/api/sync-activity"),
                             "Synced data with primary service", FALSE)
                  ELSE Reply("syncWithPrimary", c, 0, "Sync with primary failed", TRUE)
  /\ UNCHANGED <<secDiaryEntry, secLoginActivity, lastProbe, gateState, nodeState, ingest>>

SeqCycles == {1}

\* ------------------------------------------- the diary ingest route alone
IngestNext ==
  \/ Tick
  \/ \E q \in SeqRequests : SyncDiary(q, DiaryBatches)
  \/ \E q \in SeqRequests : IngestFind(q)
  \/ \E q \in SeqRequests : IngestInsert(q)

SpecIngest == Init /\ [][IngestNext]_vars

\* ----------------------------------------- the session ingest route alone
IngestActivityNext ==
  \/ Tick
  \/ \E q \in SeqRequests : SyncActivity(q, SessionBatches)
  \/ \E q \in SeqRequests : IngestFind(q)
  \/ \E q \in SeqRequests : IngestInsert(q)

SpecIngestActivity == Init /\ [][IngestActivityNext]_vars

\* ------------------------------------- the secondary: ingest, probes, sync
OneDiary == {<<e>> : e \in {d \in DiaryPayloads : d.title = "a"}}
OneSession == {<<a>> : a \in {x \in SessionPayloads : x.isActive}}

ReplNext ==
  \/ \E q \in SeqRequests : SyncDiary(q, OneDiary)
  \/ \E q \in SeqRequests : SyncActivity(q, OneSession)
  \/ \E q \in SeqRequests : IngestFind(q)
  \/ \E q \in SeqRequests : IngestInsert(q)
  \/ CheckPrimaryService
  \/ \E c \in SeqCycles : SyncProbe(c)
  \/ \E c \in SeqCycles : SyncReadDiary(c)
  \/ \E c \in SeqCycles : SyncReadActivity(c)
  \/ \E c \in SeqCycles : SyncPushDiary(c)
  \/ \E c \in SeqCycles : SyncPushActivity(c)

SpecRepl == Init /\ [][ReplNext]_vars

\* ------------------------------------- a sync cycle over a grown collection
\* The secondary's collections after n entries and n sessions were ingested,
\* one after the other, each newer than the one before.
DiaryNo(i) == [_id |-> i, title |-> "a", date |-> i, tags |-> <<>>]
SessionNo(i) == [deviceId |-> "d1", loginTime |-> i, isActive |-> TRUE, isSuspicious |-> FALSE]

InitGrown ==
  /\ now = 1
  /\ emergencyLockUntil = [u \in Usernames |-> NoDate]
  /\ lastLogin = [u \in Usernames |-> NoDate]
  /\ blockedIPs = [u \in Usernames |-> <<>>]
  /\ loginActivity = <<>>
  /\ diaryEntry = <<>>
  /\ login = [r \in Slots |-> Idle]
  /\ last = Reply("start", "", 0, "", FALSE)
  /\ ticks = 0
  /\ \E n \in 0..MaxStore :
       /\ secDiaryEntry = [i \in 1..n |-> DiaryNo(i)]
       /\ secLoginActivity = [i \in 1..n |-> SessionNo(i)]
  /\ sync = [c \in Cycles |-> NoCycle]
  /\ lastProbe = "none"
  /\ role = [n \in Nodes |-> n]
  /\ alive = [n \in Nodes |-> TRUE]
  /\ listing = NoListing
  /\ logout = NoLogout
  /\ posting = NoPosting
  /\ ingest = [q \in Requests |-> NoIngest]

LimitNext ==
  \/ \E c \in SeqCycles : SyncProbe(c)
  \/ \E c \in SeqCycles : SyncReadDiary(c)
  \/ \E c \in SeqCycles : SyncReadActivity(c)
  \/ \E c \in SeqCycles : SyncPushDiary(c)
  \/ \E c \in SeqCycles : SyncPushActivity(c)

SpecLimit == InitGrown /\ [][LimitNext]_vars

\* ------------------------------------------- login attempts one at a time
AttemptNext ==
  \/ Tick
  \/ \E r \in SeqSlots : LoginFind(r, LoginBodies)
  \/ \E r \in SeqSlots : LoginFindFails(r)
  \/ \E r \in SeqSlots : LoginCompare(r)
  \/ \E r \in SeqSlots : LoginSaveLock(r)
  \/ \E r \in SeqSlots : LoginSaveLogin(r)
  \/ \E r \in SeqSlots : LoginCreateSuspicious(r)
  \/ \E r \in SeqSlots : LoginCreateActive(r)

SpecAttempt == Init /\ [][AttemptNext]_vars

\* ------------------------------------ two ingest requests at the same time
OverlapNext ==
  \/ \E q \in Requests : SyncActivity(q, SessionBatches)
  \/ \E q \in Requests : IngestFind(q)
  \/ \E q \in Requests : IngestInsert(q)

SpecOverlap == Init /\ [][OverlapNext]_vars

\* ------------------------------- two diary ingest requests at the same time
DiaryOverlapNext ==
  \/ \E q \in Requests : SyncDiary(q, OneDiary)
  \/ \E q \in Requests : IngestFind(q)
  \/ \E q \in Requests : IngestInsert(q)

SpecDiaryOverlap == Init /\ [][DiaryOverlapNext]_vars

\* ------------------------------------------- two logins at the same time
RaceBodies ==
  {b \in LoginBodies : b.username = "alice" /\ b.password = "pa" /\ ~b.isBackup
                        /\ b.deviceInfo = "d1"}

RaceNext ==
  \/ Tick
  \/ \E r \in Slots : LoginFind(r, RaceBodies)
  \/ \E r \in Slots : LoginCompare(r)
  \/ \E r \in Slots : LoginSaveLock(r)
  \/ \E r \in Slots : LoginSaveLogin(r)
  \/ \E r \in Slots : LoginCreateSuspicious(r)
  \/ \E r \in Slots : LoginCreateActive(r)

SpecRace == Init /\ [][RaceNext]_vars

\* ----------------------------------------- the ledger and its two readers
LedgerBodies ==
  {b \in LoginBodies : b.username = "alice" /\ b.password = "pa" /\ ~b.isBackup
                        /\ b.deviceInfo = "d1"}

LedgerNext ==
  \/ Tick
  \/ \E r \in SeqSlots : LoginFind(r, LedgerBodies)
  \/ \E r \in SeqSlots : LoginCompare(r)
  \/ \E r \in SeqSlots : LoginSaveLock(r)
  \/ \E r \in SeqSlots : LoginSaveLogin(r)
  \/ \E r \in SeqSlots : LoginCreateSuspicious(r)
  \/ \E r \in SeqSlots : LoginCreateActive(r)
  \/ LogoutDevice
  \/ LogoutDeviceSettles
  \/ ListRecent
  \/ ListActive

SpecLedger == Init /\ [][LedgerNext]_vars

\* ------------------------------------------ both nodes with their probes
ProbeDiary == {<<e>> : e \in {d \in DiaryPayloads : d._id = 1 /\ d.title = "a"}}
ProbeSession == {<<a>> : a \in {x \in SessionPayloads : x.isActive /\ x.loginTime = 1}}

ProbeBodies ==
  {b \in LoginBodies : b.username = "alice" /\ b.password = "pa" /\ ~b.isBackup
                       /\ b.deviceInfo = "d1"}

ProbeNext ==
  \/ \E r \in SeqSlots : LoginFind(r, ProbeBodies)
  \/ \E r \in SeqSlots : LoginCompare(r)
  \/ \E r \in SeqSlots : LoginSaveLock(r)
  \/ \E r \in SeqSlots : LoginSaveLogin(r)
  \/ \E r \in SeqSlots : LoginCreateSuspicious(r)
  \/ \E r \in SeqSlots : LoginCreateActive(r)
  \/ LogoutDevice
  \/ LogoutDeviceSettles
  \/ \E q \in SeqRequests : SyncDiary(q, ProbeDiary)
  \/ \E q \in SeqRequests : SyncActivity(q, ProbeSession)
  \/ \E q \in SeqRequests : IngestFind(q)
  \/ \E q \in SeqRequests : IngestInsert(q)
  \/ CheckBackupService
  \/ CheckPrimaryService

SpecProbe == Init /\ [][ProbeNext]_vars

\* ================================================================= claims
CorrectSecret(body) ==
  body.username \in Usernames /\ bcryptCompare(body.password, passwordToCheck(body)) = "true"
WrongSecret(body) ==
  body.username \in Usernames /\ bcryptCompare(body.password, passwordToCheck(body)) = "false"

\* The lock check of slot r ran while the user's emergencyLockUntil was set and
\* in the future.
CheckedUnderLock(r) ==
  login[r].lockSeen # NoDate /\ login[r].checkedAt # NoDate
  /\ login[r].checkedAt < login[r].lockSeen

\* C1: a login attempt whose lock check runs while the user's emergencyLockUntil
\* is set and in the future is answered AccountLocked (403), whatever isBackup,
\* the secret and the location are; it never reaches credential verification.
C1_LockedRejectsAll ==
  \A r \in Slots :
    CheckedUnderLock(r) =>
      /\ login[r].pc = "done"
      /\ login[r].status = 403
      /\ login[r].error = "Account locked"

\* C1 witness: a wrong backup secret with a location, under an active lock
\* after time has passed, was answered AccountLocked.
C1_Witness ==
  \E r \in Slots :
    /\ CheckedUnderLock(r)
    /\ login[r].checkedAt > 1
    /\ login[r].body.isBackup /\ WrongSecret(login[r].body)
    /\ login[r].body.location # NoLocation
    /\ login[r].error = "Account locked"

\* The attempt of slot r is finished, passed the lock check with no active lock,
\* carried a correct secret, no location and a deviceInfo, and no store call
\* rejected.
LocationDeniedDone(r) ==
  /\ login[r].pc = "done"
  /\ login[r].checkedAt # NoDate /\ ~CheckedUnderLock(r)
  /\ CorrectSecret(login[r].body)
  /\ login[r].body.location = NoLocation
  /\ login[r].body.deviceInfo # NoDeviceInfo
  /\ ~login[r].fault

\* C2: with no active lock, a login with a correct secret (primary or backup)
\* and no location (the request carrying its deviceInfo, the store accepting
\* the writes) is answered LocationRequired, leaves emergencyLockUntil at the
\* trigger time + 15 minutes whatever it held before, and has appended exactly
\* one session record, which has isSuspicious = true.
C2_LocationDeniedLocks ==
  \A r \in SeqSlots :
    LocationDeniedDone(r) =>
      /\ login[r].status = 403
      /\ login[r].error = "Location permission required"
      /\ emergencyLockUntil[login[r].body.username] = login[r].triggeredAt + 15 * 60 * 1000
      /\ Len(loginActivity) = login[r].base + 1
      /\ loginActivity[Len(loginActivity)].isSuspicious = TRUE
      /\ loginActivity[Len(loginActivity)].userId = ObjectIdOf[login[r].body.username]

\* C2 witness: a location-denied attempt with the backup secret that overwrote
\* an earlier, elapsed lock.
C2_Witness ==
  \E r \in SeqSlots :
    /\ LocationDeniedDone(r)
    /\ login[r].body.isBackup
    /\ login[r].lockSeen # NoDate
    /\ emergencyLockUntil[login[r].body.username] > login[r].lockSeen

\* C3: right after closeDevice(D) completes, no session record of D is active
\* and every record of D that is not active has logoutTime set.
C3_CloseDeviceClosesAll ==
  (last.op = "logoutDevice" /\ ~last.fault) =>
    \A i \in 1..Len(loginActivity) :
      loginActivity[i].deviceId = last.arg =>
        /\ loginActivity[i].isActive = FALSE
        /\ Has(loginActivity[i], "logoutTime")

\* C4: upsertDiaryBatch is idempotent: once a batch has been applied (also one
\* that repeats a record id), applying it again leaves the diary records as they
\* are.
C4_DiaryUpsertIdempotent ==
  (last.op = "syncDiary" /\ ~last.fault) =>
    upsertDiaryBatch(secDiaryEntry, last.arg, now) = secDiaryEntry

\* C4 witness: a two-entry batch repeating one record id with different
\* contents was applied twice in a row.
C4_Witness ==
  /\ last.op = "syncDiary" /\ ~last.fault /\ last.again
  /\ Len(last.arg) = 2
  /\ last.arg[1]._id = last.arg[2]._id /\ last.arg[1] # last.arg[2]
  /\ \E i \in 1..Len(secDiaryEntry) : secDiaryEntry[i]._id = last.arg[1]._id

SameSessionKey(a, b) == a.deviceId = b.deviceId /\ a.loginTime = b.loginTime
WithKey(coll, a) == {i \in 1..Len(coll) : SameSessionKey(coll[i], a)}

\* C5: upsertSessionBatch never duplicates a (deviceId, loginTime) key and is
\* idempotent: after a batch was applied there is exactly one record for each
\* of its keys, a one-record batch applied to an empty store leaves exactly one
\* record, and applying the batch again changes no field of any record.
C5_SessionUpsertOnce ==
  [][(last'.op = "syncActivity" /\ ~last'.fault) =>
       /\ \A k \in 1..Len(last'.arg) :
            Cardinality(WithKey(secLoginActivity', last'.arg[k])) = 1
       /\ \A i \in 1..Len(secLoginActivity') :
            Cardinality(WithKey(secLoginActivity', secLoginActivity'[i])) = 1
       /\ (secLoginActivity = <<>> /\ Len(last'.arg) = 1) => Len(secLoginActivity') = 1
       /\ upsertSessionBatch(secLoginActivity', last'.arg, now') = secLoginActivity'
    ]_vars

\* C5 witness: the one-record batch {d1, T, isActive false, logoutTime T2} was
\* submitted twice in a row and the store holds exactly that one record.
C5_Witness ==
  /\ last.op = "syncActivity" /\ ~last.fault /\ last.again
  /\ Len(last.arg) = 1 /\ Has(last.arg[1], "logoutTime")
  /\ Len(secLoginActivity) = 1
  /\ \A f \in DOMAIN last.arg[1] : secLoginActivity[1][f] = last.arg[1][f]

Occurrences(arr, v) == Cardinality({i \in 1..Len(arr) : arr[i] = v})

\* C6: after blockIP(U, ip) the call reports success and the blocked-IP set of
\* an existing user contains ip exactly once.
C6_BlockIPTakesEffect ==
  (last.op = "blockIP" /\ ~last.fault) =>
    /\ last.status = 200
    /\ \E u \in Usernames : Occurrences(blockedIPs[u], last.arg) = 1

Range(q) == {q[i] : i \in 1..Len(q)}
Ids(q) == {q[i]._id : i \in 1..Len(q)}
Keys(q) == {<<q[i].deviceId, q[i].loginTime>> : i \in 1..Len(q)}

\* C7: when a sync cycle has run to completion after the primary's health
\* probe succeeded, every diary entry and every session record of the pushed
\* batch is present in the primary's collections.
C7_SyncLands ==
  \A c \in Cycles :
    (sync[c].pc = "done" /\ sync[c].probe = "ok" /\ sync[c].sent = 2) =>
      /\ Ids(sync[c].entries) \subseteq Ids(diaryEntry)
      /\ Keys(sync[c].activities) \subseteq Keys(loginActivity)

\* C8 as stated: a batch is sent to the primary only while the secondary's
\* latest health probe of the primary, whichever function made it, succeeded.
C8_PushOnlyAfterLatestProbeOk ==
  [][(\E c \in Cycles : sync'[c].sent > sync[c].sent) => lastProbe = "ok"]_vars

\* C8 amended: a cycle sends a batch only if the probe that this cycle made
\* itself (line 416) succeeded; a cycle whose probe failed or threw has read
\* nothing, sent nothing and is over.
C8_PushOnlyAfterCycleProbeOk ==
  \A c \in Cycles :
    /\ sync[c].sent > 0 => sync[c].probe = "ok"
    /\ sync[c].probe \in {"notOk", "throw"} =>
         /\ sync[c].pc = "done"
         /\ sync[c].sent = 0
         /\ sync[c].entries = <<>> /\ sync[c].activities = <<>>

\* C8 witness: with records to push in both collections, one cycle's probe
\* failed and the cycle ended having sent nothing.
C8_Witness ==
  \E c \in Cycles :
    /\ sync[c].probe \in {"notOk", "throw"} /\ sync[c].pc = "done" /\ sync[c].sent = 0
    /\ secDiaryEntry # <<>> /\ secLoginActivity # <<>>

\* The n documents of coll with the greatest value of field f.
MostRecent(coll, f, n) ==
  {coll[i] : i \in {k \in 1..Len(coll) :
                      Cardinality({j \in 1..Len(coll) : coll[j][f] > coll[k][f]}) < n}}

\* C9: the batch a sync cycle reads is the N = 50 most recent diary entries and
\* the N most recent sessions of the secondary's collections, so the newest
\* record is in the batch also when a collection holds more than N records.
C9_BatchIsMostRecent ==
  \A c \in Cycles :
    sync[c].pc \in {"pushDiary", "pushActivity"} =>
      /\ Range(sync[c].entries) = MostRecent(secDiaryEntry, "date", 50)
      /\ Range(sync[c].activities) = MostRecent(secLoginActivity, "loginTime", 50)

\* C10: a health probe, whatever its outcome, changes no collection of either
\* node, leaves both roles as they are and both processes running.
C10_ProbeChangesNothing ==
  [][(last'.op \in {"checkBackupService", "checkPrimaryService"}) =>
       /\ UNCHANGED <<emergencyLockUntil, lastLogin, blockedIPs, loginActivity, diaryEntry>>
       /\ UNCHANGED <<secDiaryEntry, secLoginActivity>>
       /\ role' = role /\ \A n \in Nodes : role'[n] = n
       /\ \A n \in Nodes : alive'[n]
    ]_vars

\* C10 witness: a probe of the primary threw while the primary held a lock and
\* a session record and the secondary held ingested records.
C10_Witness ==
  /\ last.op = "checkPrimaryService" /\ last.arg = "throw"
  /\ emergencyLockUntil["alice"] # NoDate
  /\ loginActivity # <<>>
  /\ secDiaryEntry # <<>> /\ secLoginActivity # <<>>
  /\ \A n \in Nodes : alive[n] /\ role[n] = n

\* The secret of the request is the one stored for the selected credential.
SecretMatches(body) ==
  /\ body.username \in Usernames
  /\ Hash(body.password) =
       (IF body.isBackup THEN backupPasswordHash ELSE passwordHash)[body.username]

\* The attempt of slot r is over, no store call rejected, and it was for an
\* unknown username or carried a secret that is not the stored one.
UnknownOrWrong(r) ==
  /\ login[r].pc = "done" /\ ~login[r].fault
  /\ login[r].body \in LoginBodies
  /\ ~SecretMatches(login[r].body)

\* C11 as stated: in every store state a login for an unknown username and a
\* login for an existing username with a wrong secret get the same reply,
\* InvalidCredentials.
C11_ExistenceNotRevealed ==
  \A r \in Slots :
    UnknownOrWrong(r) =>
      login[r].status = 401 /\ login[r].error = "Invalid credentials"

\* C11 amended: the two replies are the same InvalidCredentials whenever the
\* existing account is not under an active lock at its lock check; under an
\* active lock the existing account answers AccountLocked and the unknown
\* username still answers InvalidCredentials.
C11_ExistenceNotRevealedUnlocked ==
  \A r \in Slots :
    UnknownOrWrong(r) =>
      IF login[r].body.username \in Usernames /\ CheckedUnderLock(r)
      THEN login[r].status = 403 /\ login[r].error = "Account locked"
      ELSE login[r].status = 401 /\ login[r].error = "Invalid credentials"

\* C11 witness: an unknown username was answered InvalidCredentials while a
\* stored account was under an active lock.
C11_Witness ==
  \E r \in Slots :
    /\ UnknownOrWrong(r)
    /\ login[r].body.username \notin Usernames
    /\ login[r].status = 401 /\ login[r].error = "Invalid credentials"
    /\ \E u \in Usernames : IsLocked(emergencyLockUntil[u], now)

\* The records of coll owned by user u.
SessionsOf(coll, u) == SelectSeq(coll, LAMBDA d : d.userId = ObjectIdOf[u])

\* C12: the reply of listActivity for a user U holds, as its recent list, the
\* (at most 20) session records of U with the greatest loginTime in descending
\* loginTime order and, as its active list, exactly the records of U with
\* isActive = true; a record written by a login of U is in the recent list
\* while it is among U's 20 most recent.
C12_ListActivityReflectsLogins ==
  (last.op = "listActivity" /\ last.status = 200) =>
    \E u \in Usernames :
      /\ Range(last.arg.activities) =
           MostRecent(SessionsOf(loginActivity, u), "loginTime", 20)
      /\ \A i \in 1..(Len(last.arg.activities) - 1) :
           last.arg.activities[i].loginTime >= last.arg.activities[i + 1].loginTime
      /\ Range(last.arg.activeDevices) =
           {d \in Range(SessionsOf(loginActivity, u)) : d.isActive}

\* The stored document is the payload and nothing else: it carries the
\* payload's fields with the payload's values and, besides them, only the
\* fields the schema defaults add to a document made of the payload alone.
IsReplacedBy(stored, payload, withDefaults) ==
  /\ DOMAIN stored = DOMAIN withDefaults
  /\ \A f \in DOMAIN payload : stored[f] = payload[f]

\* The payloads of a batch that no later payload of the batch overrides.
Final(batch, same(_, _)) ==
  {k \in 1..Len(batch) : \A j \in (k + 1)..Len(batch) : ~same(batch[j], batch[k])}

\* C13: after an ingest request was applied, the one stored record with the
\* identity key of an incoming record equals the incoming payload field for
\* field: a field the stored record had and the payload lacks is gone, and with
\* no stored match exactly one record equal to the payload was inserted.
C13_UpsertFullyReplaces ==
  /\ (last.op = "syncDiary" /\ ~last.fault) =>
       \A k \in Final(last.arg, LAMBDA a, b : a._id = b._id) :
         /\ Cardinality({i \in 1..Len(secDiaryEntry) : secDiaryEntry[i]._id = last.arg[k]._id}) = 1
         /\ \A i \in 1..Len(secDiaryEntry) :
              secDiaryEntry[i]._id = last.arg[k]._id =>
                IsReplacedBy(secDiaryEntry[i], last.arg[k], DiaryEntryDefaults(last.arg[k], now))
  /\ (last.op = "syncActivity" /\ ~last.fault) =>
       \A k \in Final(last.arg, SameSessionKey) :
         /\ Cardinality(WithKey(secLoginActivity, last.arg[k])) = 1
         /\ \A i \in WithKey(secLoginActivity, last.arg[k]) :
              IsReplacedBy(secLoginActivity[i], last.arg[k],
                           LoginActivityDefaults(last.arg[k], now))

\* Slot r's attempt completes successfully in this step: the session record is
\* appended and the token is returned.
Succeeds(r) ==
  login[r].pc = "createActive" /\ login'[r].pc = "done" /\ login'[r].status = 200

\* C14 as stated: under any interleaving of logins for one user, no login
\* completes successfully at a moment when the user's emergencyLockUntil is set
\* and in the future.
C14_NoSuccessUnderLock ==
  [][\A r \in Slots :
       Succeeds(r) => ~IsLocked(emergencyLockUntil'[login[r].body.username], now')]_vars

\* C14 amended: a login completes successfully only if its own lock check saw
\* no active lock; a lock written after that check by a concurrent
\* location-denied attempt does not stop it, and it then has set lastLogin and
\* appended an active, non-suspicious record while the lock stays as written.
C14_SuccessOnlyIfCheckPassed ==
  [][\A r \in Slots :
       Succeeds(r) =>
         /\ login[r].checkedAt # NoDate /\ ~CheckedUnderLock(r)
         /\ lastLogin[login[r].body.username] # NoDate
         /\ loginActivity'[Len(loginActivity')].isActive = TRUE
         /\ loginActivity'[Len(loginActivity')].isSuspicious = FALSE
         /\ emergencyLockUntil' = emergencyLockUntil]_vars

\* C14 witness: a login that passed the lock check while no lock was set has
\* completed successfully while the lock a concurrent attempt wrote is active.
C14_Witness ==
  \E r \in Slots :
    /\ login[r].pc = "done" /\ login[r].status = 200
    /\ login[r].lockSeen = NoDate /\ login[r].checkedAt # NoDate
    /\ login[r].lockAtSave # NoDate
    /\ IsLocked(emergencyLockUntil[login[r].body.username], now)
    /\ \E q \in Slots \ {r} :
         emergencyLockUntil[login[r].body.username] = login[q].triggeredAt + LockDuration

\* Slot r's user.save() of a lockout trigger settles in this step.
SavesLock(r) == login[r].pc = "saveLock" /\ login'[r].pc # "saveLock" /\ ~login'[r].fault

\* C15 as stated: once emergencyLockUntil holds a value L it is never cleared
\* and never replaced by a value earlier than L, and every write to it is a
\* lockout trigger setting it to that trigger's time + 15 minutes.
C15_LockNeverMovesBack ==
  [][\A u \in Usernames :
       /\ emergencyLockUntil[u] # NoDate =>
            emergencyLockUntil'[u] # NoDate /\ emergencyLockUntil'[u] >= emergencyLockUntil[u]
       /\ emergencyLockUntil'[u] # emergencyLockUntil[u] =>
            \E r \in Slots :
              /\ SavesLock(r) /\ login[r].body.username = u
              /\ emergencyLockUntil'[u] = login[r].triggeredAt + 15 * 60 * 1000]_vars

\* C15 amended: once set, emergencyLockUntil is never cleared, and every write
\* to it is the save of a lockout trigger, which sets it to that trigger's own
\* time + 15 minutes whatever it holds; it is replaced by an earlier value only
\* by the save of a trigger that passed its lock check before L was written.
C15_OnlyTriggersWriteLock ==
  [][\A u \in Usernames :
       /\ emergencyLockUntil[u] # NoDate => emergencyLockUntil'[u] # NoDate
       /\ emergencyLockUntil'[u] # emergencyLockUntil[u] =>
            \E r \in Slots :
              /\ SavesLock(r) /\ login[r].body.username = u
              /\ emergencyLockUntil'[u] = login[r].triggeredAt + 15 * 60 * 1000
              /\ ~CheckedUnderLock(r)
              /\ emergencyLockUntil'[u] < emergencyLockUntil[u] =>
                   login[r].lockSeen # emergencyLockUntil[u]]_vars

\* C15 witness: two triggers overlapped and the lock holds the time + 15
\* minutes of the earlier one, whose save settled last.
C15_Witness ==
  \E r \in Slots, q \in Slots :
    /\ login[r].triggeredAt # NoDate /\ login[q].triggeredAt # NoDate
    /\ login[r].triggeredAt < login[q].triggeredAt
    /\ login[r].pc \in {"createSuspicious", "done"} /\ ~login[r].fault
    /\ login[q].pc \in {"createSuspicious", "done"} /\ ~login[q].fault
    /\ emergencyLockUntil[login[r].body.username] = login[r].triggeredAt + LockDuration

\* Slot r's user.save() of a successful login settles in this step.
SavesLastLogin(r) == login[r].pc = "saveLogin" /\ login'[r].pc # "saveLogin"

\* C16: the save of a successful login writes only lastLogin on the user
\* record: emergencyLockUntil is left as stored, also when the login read the
\* user before a concurrent location-denied attempt saved a lock and saves
\* after it, so that lock survives the save.
C16_SuccessLeavesLock ==
  [][\A r \in Slots :
       SavesLastLogin(r) =>
         /\ emergencyLockUntil' = emergencyLockUntil
         /\ ~login'[r].fault =>
              /\ lastLogin'[login[r].body.username] = login[r].pending
              /\ \A u \in Usernames \ {login[r].body.username} : lastLogin'[u] = lastLogin[u]]_vars

\* C16 witness: a login with a location read the user while no lock was set,
\* saved lastLogin after a concurrent attempt had stored a lock, and the lock
\* is still the stored one.
C16_Witness ==
  \E r \in Slots :
    /\ login[r].pc \in {"createActive", "done"} /\ ~login[r].fault
    /\ login[r].body.location # NoLocation
    /\ login[r].lockSeen = NoDate /\ login[r].checkedAt # NoDate
    /\ login[r].lockAtSave # NoDate
    /\ emergencyLockUntil[login[r].body.username] = login[r].lockAtSave
    /\ lastLogin[login[r].body.username] # NoDate

\* The attempt of slot r ended with InvalidCredentials or AccountLocked.
Rejected(r) ==
  /\ login[r].pc = "done"
  /\ \/ login[r].status = 401 /\ login[r].error = "Invalid credentials"
     \/ login[r].status = 403 /\ login[r].error = "Account locked"

\* The attempt of slot r ended in success or LocationRequired.
Admitted(r) ==
  /\ login[r].pc = "done"
  /\ \/ login[r].status = 200
     \/ login[r].status = 403 /\ login[r].error = "Location permission required"

\* C17: an attempt for an unknown user, with a wrong secret or under an active
\* lock ends InvalidCredentials or AccountLocked and none of its steps changes
\* emergencyLockUntil, lastLogin or the session ledger; the ledger grows only by
\* one record, in the step that ends an attempt whose secret was verified in
\* success or LocationRequired, and has grown by exactly one for each such
\* attempt and by none for any other.
C17_FailedLoginsChangeNothing ==
  [][\A r \in SeqSlots :
       /\ (login'[r] # login[r] /\ login'[r].pc \in {"compare", "done"} /\ Rejected(r)')
            => UNCHANGED <<emergencyLockUntil, lastLogin, loginActivity>>
       /\ (login'[r] # login[r] /\ login'[r].pc = "compare")
            => UNCHANGED <<emergencyLockUntil, lastLogin, loginActivity>>
       /\ (login'[r].pc = "done" /\ ~login'[r].fault /\ login'[r].body \in LoginBodies
             /\ (~SecretMatches(login'[r].body) \/ CheckedUnderLock(r)'))
            => Rejected(r)' /\ Len(loginActivity') = login'[r].base
       /\ login'[r].pc = "done" =>
            Len(loginActivity') = login'[r].base + (IF Admitted(r)' THEN 1 ELSE 0)
       /\ loginActivity' # loginActivity /\ Len(loginActivity') # Len(loginActivity) =>
            /\ loginActivity' = Append(loginActivity, loginActivity'[Len(loginActivity')])
            /\ Admitted(r)' /\ SecretMatches(login'[r].body) /\ login[r].pc # "done"]_vars

\* C17 witness: with a session record in the ledger and a lock that has
\* elapsed, an attempt with a wrong secret was answered InvalidCredentials and
\* the ledger, the lock and lastLogin are as they were.
C17_Witness ==
  \E r \in SeqSlots :
    /\ Rejected(r) /\ login[r].status = 401
    /\ login[r].body.username \in Usernames /\ ~SecretMatches(login[r].body)
    /\ login[r].lockSeen # NoDate /\ emergencyLockUntil[login[r].body.username] = login[r].lockSeen
    /\ Len(loginActivity) = login[r].base /\ login[r].base > 0

\* The session-ledger write of slot r's location-denied attempt fails in this
\* step, after the lock was saved: LoginActivity.create rejects, or its
\* arguments cannot be evaluated because the request has no deviceInfo.
LedgerWriteFails(r) ==
  \/ login[r].pc = "createSuspicious" /\ login'[r].pc = "done" /\ login'[r].fault
  \/ /\ login[r].pc = "saveLock" /\ login'[r].pc = "done" /\ ~login'[r].fault
     /\ login[r].body.deviceInfo = NoDeviceInfo

\* C18: when the session-ledger write of a location-denied attempt fails, the
\* caller gets the generic server error (not LocationRequired), the user's
\* emergencyLockUntil stays at the trigger time + 15 minutes and the ledger has
\* no record of the attempt.
C18_NoRollback ==
  [][\A r \in SeqSlots :
       LedgerWriteFails(r) =>
         /\ login'[r].status = 500 /\ login'[r].error = "Internal server error"
         /\ emergencyLockUntil'[login[r].body.username] = login[r].triggeredAt + 15 * 60 * 1000
         /\ lastLogin' = lastLogin
         /\ loginActivity' = loginActivity
         /\ Len(loginActivity') = login[r].base]_vars

\* C18 witness: a location-denied attempt without deviceInfo ended with the
\* server error, the lock is in place and in the future and the ledger is as
\* it was before; and one whose create was rejected likewise.
C18_Witness ==
  \E r \in SeqSlots :
    /\ login[r].pc = "done" /\ login[r].status = 500
    /\ login[r].triggeredAt # NoDate
    /\ SecretMatches(login[r].body) /\ login[r].body.location = NoLocation
    /\ login[r].body.deviceInfo = NoDeviceInfo /\ ~login[r].fault
    /\ emergencyLockUntil[login[r].body.username] = login[r].triggeredAt + LockDuration
    /\ IsLocked(emergencyLockUntil[login[r].body.username], now)
    /\ Len(loginActivity) = login[r].base

\* C19: with two upsertSessionBatch requests running at the same time, their
\* per-record lookups and inserts interleaved, the store never holds two
\* session records with the same (deviceId, loginTime), and once both requests
\* are over each record they carried is stored exactly once.
C19_OverlapDuplicateFree ==
  /\ \A i \in 1..Len(secLoginActivity) :
       Cardinality(WithKey(secLoginActivity, secLoginActivity[i])) = 1
  /\ (\A q \in Requests : ingest[q].pc = "done") =>
       \A q \in Requests : \A k \in 1..Len(ingest[q].records) :
         ingest[q].kind = "activity" =>
           Cardinality(WithKey(secLoginActivity, ingest[q].records[k])) = 1

\* C20: every session record of the ledger with isActive = true was created by
\* a login that supplied a location and succeeded, and the isSuspicious = true
\* record of a location-denied attempt has isActive = false, so it is neither
\* in the active list nor one of the records closeDevice looks for.
C20_ActiveOnlyFromSuccess ==
  \A i \in 1..Len(loginActivity) :
    /\ loginActivity[i].isSuspicious = TRUE => loginActivity[i].isActive = FALSE
    /\ loginActivity[i].isActive = TRUE =>
         Has(loginActivity[i], "location") /\ loginActivity[i].isSuspicious = FALSE
    /\ loginActivity[i].isSuspicious = TRUE =>
         ~MatchesActiveDevice(loginActivity[i], loginActivity[i].deviceId)

====
